---- MODULE Spec2Model ----
(***************************************************************************)
(* The realtime voice session of src/App.tsx (stopLiveSession,             *)
(* startLiveSession and the callbacks it registers) and its one-shot       *)
(* requests (handleSend and the helpers of geminiService) as a state       *)
(* machine.                                                                *)
(*                                                                         *)
(* Every invocation of startLiveSession is a "session" k: it owns the      *)
(* closure variables of that invocation (stream, inCtx, outCtx,            *)
(* sessionPromise) while the refs of the component (liveSessionRef,        *)
(* audioContextInRef, ...) are shared by all invocations.                  *)
(*                                                                         *)
(* Time is counted in output frames: an AudioContext's currentTime and an  *)
(* AudioBuffer's duration are both whole numbers of frames.  Text is a     *)
(* sequence of characters, typed text a sequence of one piece.             *)
(* A message of the log is its role and its text;                          *)
(* the timestamp, which nothing reads back, is left out.                   *)
(***************************************************************************)
EXTENDS Integers, Sequences, FiniteSets, TLC

\* ---------------------------------------------------------------- bounds
MaxSessions == 2        \* invocations of startLiveSession
MaxClock == 2           \* ticks of each output context's clock
MaxChunks == 2          \* audio chunks scheduled in a run
MaxDur == 2             \* longest audio chunk
MaxBuf == 2             \* characters held by the two turn buffers together
MaxPairs == 1           \* message pairs in the conversation log
MaxFrames == 2          \* audio frames captured in a run
SubSteps == 2           \* sample values told apart within one step of 16-bit PCM
MaxOff == 3             \* the samples drawn lie this close to -1, to 0 or to 1

PcmScale == 32768       \* the factor of createBlob and the divisor of decodeAudioData
Int16Half == 32768      \* an Int16Array element lies in -Int16Half .. Int16Half - 1

Sessions == 1 .. MaxSessions
Chars == {"a", "b"}
Deltas == {<<>>} \cup {<<c>> : c \in Chars}
\* LearningMode, one value for each of the three ways the session's buttons are
\* drawn: "chat" shows the microphone button, "correct" shows neither it nor the
\* END CALL overlay, every other mode (here "pronunciation") shows the overlay only.
Modes == {"chat", "correct", "pronunciation"}

Max(a, b) == IF a >= b THEN a ELSE b

\* An inbound LiveServerMessage: the four parts of serverContent the handler reads.
\* audio = 0: no inline audio; audio = d > 0: a chunk that decodes to d frames.
ServerMessages ==
    { m \in [inT : BOOLEAN, inText : Deltas, outT : BOOLEAN, outText : Deltas,
             turnComplete : BOOLEAN, audio : 0 .. MaxDur] :
        /\ (~m.inT => m.inText = <<>>)
        /\ (~m.outT => m.outText = <<>>) }

NoMsg == [inT |-> FALSE, inText |-> <<>>, outT |-> FALSE, outText |-> <<>>,
          turnComplete |-> FALSE, audio |-> 0]

\* Messages that carry transcript deltas and turn markers only.
TextMessages == {m \in ServerMessages : m.audio = 0}

\* Messages that carry an audio chunk only.
AudioMessages ==
    {m \in ServerMessages : m.audio > 0 /\ ~m.inT /\ ~m.outT /\ ~m.turnComplete}

VARIABLES
    mode,                    \* useState: the learning mode
    loading,                 \* useState
    isLive,                  \* useState
    messages,                \* useState: the conversation log
    liveSessionRef,          \* 0 = null, else the session whose handle is stored
    audioContextInRef,       \* 0 = null, else the session whose inCtx is stored
    audioContextOutRef,      \* 0 = null, else the session whose outCtx is stored
    nextStartTimeRef,        \* the playback cursor
    activeSourcesRef,        \* set of indices into nodes
    currentTranscriptionRef, \* [input, output]: the two turn buffers
    nSess,                   \* invocations of startLiveSession so far
    pc,                      \* where each invocation of startLiveSession stands
    stream,                  \* each session's MediaStream: "none" | "live"
    inCtx,                   \* each session's input AudioContext: "none" | "running" | "closed"
    outCtx,                  \* each session's output AudioContext
    conn,                    \* each session's connection
    wired,                   \* onopen has attached the capture processor
    currentTime,             \* each output context's clock
    nodes,                   \* every AudioBufferSourceNode created, in creation order
    raised,                  \* the error the last step raised, "none" if none
    alerted,                 \* the last step called alert()
    op,                      \* the last step: its name, its session, what it did
    turn,                    \* { input, output } as the last turn-complete read them
    dropped,                 \* history: sessions that saw a remote error or close event
    stale,                   \* history: 0, or 1 + the sessions started when a teardown
                             \*          left text in the turn buffers that is still there
    sched,                   \* history: the chunks scheduled since the cursor was reset
    since,                   \* history: deltas arrived since the turn-complete before last
    decoding,                \* onmessage handlers suspended at the await of line 170
    frames,                  \* history: the session that captured each frame, in order
    pending,                 \* reactions queued on a sessionPromise not yet resolved
    sent,                    \* what went out on the connections, in order
    data,                    \* the Float32Array handed to createBlob
    int16,                   \* the Int16Array createBlob filled
    blob,                    \* the bytes createBlob encoded
    channelData,             \* the channel data decodeAudioData filled
    ret,                     \* the last call TutorCall or ScoreCall made and what it returned
    input,                   \* useState: the text field
    correctionResult,        \* useState: null, or the object handleSend stored
    requests                 \* invocations of handleSend suspended at their await

vars == <<mode, loading, isLive, messages, liveSessionRef, audioContextInRef,
          audioContextOutRef, nextStartTimeRef, activeSourcesRef,
          currentTranscriptionRef, nSess, pc, stream, inCtx, outCtx, conn, wired,
          currentTime, nodes, raised, alerted, op, turn, dropped, stale, sched,
          since, decoding, frames, pending, sent, data, int16, blob, channelData,
          ret, input, correctionResult, requests>>

uiVars == <<mode, loading, messages>>
refVars == <<liveSessionRef, audioContextInRef, audioContextOutRef, nextStartTimeRef,
             activeSourcesRef, currentTranscriptionRef, turn>>
sessVars == <<nSess, pc, stream, inCtx, outCtx, conn, wired>>
audioVars == <<currentTime, nodes>>
histVars == <<dropped, stale, sched, since>>
captureVars == <<frames, pending, sent>>
pureVars == <<data, int16, blob, channelData, ret>>
sendVars == <<input, correctionResult, requests>>

\* tc: the step processed a turn-complete marker. late: the step appended to the
\* log text that a teardown had left in the buffers before its session was started.
Op(name, k, m) == [name |-> name, s |-> k, tc |-> m.turnComplete, late |-> FALSE]

EmptyBuffers == [input |-> <<>>, output |-> <<>>]

\* No helper was called yet.
NoCall == [fn |-> "none", mode |-> "chat", text |-> "", reply |-> "none",
           threw |-> FALSE, value |-> [kind |-> "none"]]

\* The component as it is mounted: every useState and useRef at its initial value,
\* no session started, nothing captured, sent or converted.
Mounted ==
    /\ mode = "chat"
    /\ loading = FALSE
    /\ isLive = FALSE
    /\ messages = <<>>
    /\ liveSessionRef = 0
    /\ audioContextInRef = 0
    /\ audioContextOutRef = 0
    /\ nextStartTimeRef = 0
    /\ activeSourcesRef = {}
    /\ currentTranscriptionRef = EmptyBuffers
    /\ turn = EmptyBuffers
    /\ nSess = 0
    /\ pc = [k \in Sessions |-> "none"]
    /\ stream = [k \in Sessions |-> "none"]
    /\ inCtx = [k \in Sessions |-> "none"]
    /\ outCtx = [k \in Sessions |-> "none"]
    /\ conn = [k \in Sessions |-> "none"]
    /\ wired = [k \in Sessions |-> FALSE]
    /\ currentTime = [k \in Sessions |-> 0]
    /\ nodes = <<>>
    /\ raised = "none"
    /\ alerted = FALSE
    /\ op = Op("init", 0, NoMsg)
    /\ dropped = [k \in Sessions |-> FALSE]
    /\ stale = 0
    /\ sched = [n |-> 0, sum |-> 0, led |-> FALSE]
    /\ since = [s |-> 0, clean |-> FALSE, input |-> <<>>, output |-> <<>>,
                done |-> FALSE]
    /\ decoding = <<>>
    /\ frames = <<>>
    /\ pending = <<>>
    /\ sent = <<>>
    /\ int16 = <<>>
    /\ blob = <<>>
    /\ channelData = <<>>
    /\ ret = NoCall
    /\ input = ""
    /\ correctionResult = [kind |-> "null"]
    /\ requests = <<>>

Init ==
    /\ Mounted
    /\ data = <<>>

\* A task (a click, an event of a connection, a settled promise, an audio callback)
\* starts when the microtask queue is empty: no handler is left suspended at the
\* await of line 170 when the next task runs.
task == decoding = <<>>

\* ------------------------------------------------------- stopLiveSession

\* liveSessionRef.current.close?.(): asks the connection to close.
closeSession(c, r) ==
    IF r = 0 THEN c
    ELSE [c EXCEPT ![r] = IF @ \in {"connecting", "open"} THEN "closing" ELSE @]

\* activeSourcesRef.current.forEach(s => s.stop())
stopSources(ns, active) ==
    [i \in DOMAIN ns |-> IF i \in active THEN [ns[i] EXCEPT !.st = "stopped"] ELSE ns[i]]

\* ref.current.close() when the ref is set; the ref itself is left as it is.
closeContext(ctx, r) == IF r = 0 THEN ctx ELSE [ctx EXCEPT ![r] = "closed"]

\* AudioContext.close() on a context that is already closed returns a promise
\* rejected with InvalidStateError; nothing handles it.
closeRejects(ctx, r) == r # 0 /\ ctx[r] = "closed"

\* The body of stopLiveSession. c0 is the connection table the handler finds:
\* conn itself for a click, conn after the event for onerror and onclose.
stopLiveSession(c0) ==
    /\ conn' = closeSession(c0, liveSessionRef)
    /\ liveSessionRef' = 0
    /\ nodes' = stopSources(nodes, activeSourcesRef)
    /\ activeSourcesRef' = {}
    /\ isLive' = FALSE
    /\ inCtx' = closeContext(inCtx, audioContextInRef)
    /\ outCtx' = closeContext(outCtx, audioContextOutRef)
    /\ raised' = IF \/ closeRejects(inCtx, audioContextInRef)
                    \/ closeRejects(outCtx, audioContextOutRef)
                 THEN "InvalidStateError" ELSE "none"
    /\ stale' = IF currentTranscriptionRef = EmptyBuffers THEN 0 ELSE nSess + 1
    /\ alerted' = FALSE
    /\ UNCHANGED <<audioContextInRef, audioContextOutRef, nextStartTimeRef,
                   currentTranscriptionRef, turn, loading, messages, nSess, pc,
                   stream, wired, currentTime, sched, since>>
    /\ UNCHANGED <<decoding, captureVars, pureVars, input, requests>>

\* The END CALL button, and the microphone button while live.
EndCall ==
    /\ task
    /\ isLive
    /\ mode # "correct"
    /\ stopLiveSession(conn)
    /\ op' = Op("endCall", 0, NoMsg)
    /\ UNCHANGED <<mode, dropped, correctionResult>>

\* A tutor button: stopLiveSession(); setSelectedTutor(t.id). The persona is read
\* only to configure the next connection and is not part of the state here.
SelectTutor ==
    /\ task
    /\ stopLiveSession(conn)
    /\ op' = Op("selectTutor", 0, NoMsg)
    /\ UNCHANGED <<mode, dropped, correctionResult>>

\* A mode button: stopLiveSession(); setMode(item.id); setCorrectionResult(null).
SelectMode(m) ==
    /\ task
    /\ stopLiveSession(conn)
    /\ mode' = m
    /\ op' = Op("selectMode", 0, NoMsg)
    /\ correctionResult' = [kind |-> "null"]
    /\ UNCHANGED dropped

\* ------------------------------------------------------ startLiveSession

\* The microphone button while not live: startLiveSession up to its first await.
startLiveSession ==
    /\ task
    /\ mode = "chat"
    /\ ~isLive
    /\ ~loading
    /\ nSess < MaxSessions
    /\ nSess' = nSess + 1
    /\ pc' = [pc EXCEPT ![nSess + 1] = "getUserMedia"]
    /\ loading' = TRUE
    /\ raised' = "none"
    /\ alerted' = FALSE
    /\ op' = Op("start", nSess + 1, NoMsg)
    /\ UNCHANGED <<mode, isLive, messages, refVars, stream, inCtx, outCtx, conn, wired,
                   audioVars, histVars>>
    /\ UNCHANGED <<decoding, captureVars, pureVars, sendVars>>

\* getUserMedia resolves: lines 142-147, up to the await of sessionPromise.
getUserMediaResolved(k) ==
    /\ task
    /\ pc[k] = "getUserMedia"
    /\ stream' = [stream EXCEPT ![k] = "live"]
    /\ inCtx' = [inCtx EXCEPT ![k] = "running"]
    /\ outCtx' = [outCtx EXCEPT ![k] = "running"]
    /\ audioContextInRef' = k
    /\ audioContextOutRef' = k
    /\ nextStartTimeRef' = 0
    /\ conn' = [conn EXCEPT ![k] = "connecting"]
    /\ pc' = [pc EXCEPT ![k] = "connect"]
    /\ sched' = [n |-> 0, sum |-> 0, led |-> FALSE]
    /\ raised' = "none"
    /\ alerted' = FALSE
    /\ op' = Op("getUserMediaResolved", k, NoMsg)
    /\ UNCHANGED <<uiVars, isLive, liveSessionRef, activeSourcesRef,
                   currentTranscriptionRef, turn, nSess, wired, audioVars, dropped,
                   stale, since>>
    /\ UNCHANGED <<decoding, captureVars, pureVars, sendVars>>

\* A catch clause that reports the failure and leaves the loading flag set.
catchKeepsLoading(k) ==
    /\ pc' = [pc EXCEPT ![k] = "caught"]
    /\ loading' = loading
    /\ alerted' = TRUE
    /\ raised' = "none"

\* The catch clause of startLiveSession.
catch(k) ==
    /\ pc' = [pc EXCEPT ![k] = "caught"]
    /\ loading' = FALSE
    /\ alerted' = TRUE
    /\ raised' = "none"

\* getUserMedia rejects (permission denied): the catch clause runs.
getUserMediaRejected(k) ==
    /\ task
    /\ pc[k] = "getUserMedia"
    /\ catch(k)
    /\ op' = Op("getUserMediaRejected", k, NoMsg)
    /\ UNCHANGED <<mode, isLive, messages, refVars, nSess, stream, inCtx, outCtx, conn,
                   wired, audioVars, histVars>>
    /\ UNCHANGED <<decoding, captureVars, pureVars, sendVars>>

\* sessionPromise rejects before the connection opened: the catch clause runs.
connectRejected(k) ==
    /\ task
    /\ pc[k] = "connect"
    /\ conn[k] = "connecting"
    /\ conn' = [conn EXCEPT ![k] = "closed"]
    /\ catch(k)
    /\ op' = Op("connectRejected", k, NoMsg)
    /\ UNCHANGED <<mode, isLive, messages, refVars, nSess, stream, inCtx, outCtx, wired,
                   audioVars, histVars>>
    /\ UNCHANGED <<decoding, captureVars, pureVars, sendVars>>

\* s.sendRealtimeInput({ media }): the frame goes out if the connection is open; a
\* connection that is closing or closed sends nothing.
sendRealtimeInput(c, out, e) == IF c[e.s] = "open" THEN Append(out, e) ELSE out

\* The reactions that sessionPromise.then queued for session k run in the order they
\* were queued, each sending what the buffer it refers to holds by then.
RECURSIVE flush(_, _, _, _)
flush(c, out, q, k) ==
    IF q = <<>> THEN out
    ELSE flush(c, IF Head(q).s = k THEN sendRealtimeInput(c, out, Head(q)) ELSE out,
               Tail(q), k)

\* sessionPromise resolves after the connection opened: liveSessionRef.current = ...
\* The continuation of line 187 was queued on the promise before any reaction of
\* line 155, so the handle is stored first and the queued frames are sent after it.
\* When the library resolves the promise is its business: any step may come between
\* the open callback and this one.
sessionResolved(k) ==
    /\ task
    /\ pc[k] = "connect"
    /\ wired[k]
    /\ liveSessionRef' = k
    /\ pc' = [pc EXCEPT ![k] = "stored"]
    /\ sent' = flush(conn, sent, pending, k)
    /\ pending' = LET others(e) == e.s # k IN SelectSeq(pending, others)
    /\ raised' = "none"
    /\ alerted' = FALSE
    /\ op' = Op("sessionResolved", k, NoMsg)
    /\ UNCHANGED <<uiVars, isLive, audioContextInRef, audioContextOutRef,
                   nextStartTimeRef, activeSourcesRef, currentTranscriptionRef, turn,
                   nSess, stream, inCtx, outCtx, conn, wired, audioVars, histVars>>
    /\ UNCHANGED <<decoding, frames, pureVars, sendVars>>

\* ------------------------------------------------------------- callbacks

onopen(k) ==
    /\ task
    /\ conn[k] = "connecting"
    /\ conn' = [conn EXCEPT ![k] = "open"]
    /\ wired' = [wired EXCEPT ![k] = TRUE]
    /\ isLive' = TRUE
    /\ loading' = FALSE
    /\ raised' = "none"
    /\ alerted' = FALSE
    /\ op' = Op("onopen", k, NoMsg)
    /\ UNCHANGED <<mode, messages, refVars, nSess, pc, stream, inCtx, outCtx, audioVars,
                   histVars>>
    /\ UNCHANGED <<decoding, captureVars, pureVars, sendVars>>

\* A handler that puts each delta in front of its buffer.
prependTranscription(buf, m) ==
    [input |-> IF m.inT THEN m.inText \o buf.input ELSE buf.input,
     output |-> IF m.outT THEN m.outText \o buf.output ELSE buf.output]

\* Lines 161-162: the deltas of the message are appended to the turn buffers.
appendTranscription(buf, m) ==
    [input |-> IF m.inT THEN buf.input \o m.inText ELSE buf.input,
     output |-> IF m.outT THEN buf.output \o m.outText ELSE buf.output]

\* A flush that emits the model's message first.
turnMessagesModelFirst(buf) ==
    IF buf.input # <<>> \/ buf.output # <<>>
    THEN <<[role |-> "model", text |-> buf.output],
           [role |-> "user", text |-> buf.input]>>
    ELSE <<>>

\* A flush without the test of line 165.
turnMessagesAlways(buf) ==
    <<[role |-> "user", text |-> buf.input], [role |-> "model", text |-> buf.output]>>

\* Line 165: what a turn-complete marker appends to the log.
turnMessages(buf) ==
    IF buf.input # <<>> \/ buf.output # <<>>
    THEN <<[role |-> "user", text |-> buf.input],
           [role |-> "model", text |-> buf.output]>>
    ELSE <<>>

\* A cursor that stays where the chunk started.
advanceNot(t, d) == t

\* A scheduler that starts every chunk at the cursor, whatever the clock says.
startAtCursor(cursor, now) == cursor

\* Line 172: the time the next chunk starts at.
startTime(cursor, now) == Max(cursor, now)

\* Line 173: the cursor after a chunk of d frames was started at t.
advance(t, d) == t + d

\* History (sched): how many chunks were scheduled since the cursor was reset, the sum
\* of their durations, and whether the clock ever led the cursor when one was scheduled.
\* History (since): the deltas of the interval that the last turn-complete but one opened,
\* kept while every message of the interval came from the session of that marker.
sinceAfter(k, m) ==
    LET cur == IF since.done
               THEN [since EXCEPT !.clean = TRUE, !.input = <<>>, !.output = <<>>]
               ELSE since
        clean == cur.clean /\ cur.s = k
    IN  [s |-> k, clean |-> clean,
         input |-> IF clean THEN cur.input \o m.inText ELSE <<>>,
         output |-> IF clean THEN cur.output \o m.outText ELSE <<>>,
         done |-> m.turnComplete]

\* Lines 160-170: the transcript part of the handler runs at once; with inline audio
\* the handler then suspends at the await of line 170.  History: msg numbers the
\* audio messages in arrival order, and a node's fl is the number of handlers that
\* were suspended when the one that created it resumed.
onmessage(k, m) ==
    /\ conn[k] = "open"
    /\ LET buf == appendTranscription(currentTranscriptionRef, m)
           out == IF m.turnComplete THEN turnMessages(buf) ELSE <<>>
       IN  /\ Len(buf.input) + Len(buf.output) <= MaxBuf
           /\ Len(messages) + Len(out) <= 2 * MaxPairs
           /\ m.audio > 0 => Len(nodes) + Len(decoding) < MaxChunks
           /\ currentTranscriptionRef' = IF m.turnComplete THEN EmptyBuffers ELSE buf
           /\ turn' = IF m.turnComplete THEN buf ELSE turn
           /\ messages' = messages \o out
           /\ decoding' = IF m.audio > 0
                          THEN Append(decoding, [s |-> k, dur |-> m.audio,
                                                 msg |-> Len(nodes) + Len(decoding) + 1])
                          ELSE decoding
           /\ stale' = IF m.turnComplete THEN 0 ELSE stale
           /\ op' = [Op("onmessage", k, m) EXCEPT
                        !.late = m.turnComplete /\ stale # 0 /\ k >= stale]
    /\ since' = sinceAfter(k, m)
    /\ raised' = "none"
    /\ alerted' = FALSE
    /\ UNCHANGED <<mode, loading, isLive, liveSessionRef, audioContextInRef,
                   audioContextOutRef, nextStartTimeRef, activeSourcesRef, sessVars,
                   audioVars, dropped, sched, captureVars, pureVars, sendVars>>

\* A scheduler that resumes the handler suspended last.
resumedLast(q) == Len(q)

\* decodeAudioData awaits nothing: its promise is resolved when the handler awaits
\* it, and the continuations run from the microtask queue, first queued first run.
resumed(q) == 1

\* Lines 171-174: the handler suspended at line 170 resumes and schedules its chunk.
onmessageResumed ==
    /\ decoding # <<>>
    /\ LET i == resumed(decoding)
           h == decoding[i]
           t == startTime(nextStartTimeRef, currentTime[h.s])
       IN  /\ nodes' = Append(nodes, [s |-> h.s, start |-> t, dur |-> h.dur,
                                       st |-> "playing", msg |-> h.msg,
                                       fl |-> Len(decoding)])
           /\ nextStartTimeRef' = advance(t, h.dur)
           /\ activeSourcesRef' = activeSourcesRef \cup {Len(nodes) + 1}
           /\ sched' = [n |-> sched.n + 1, sum |-> sched.sum + h.dur,
                         led |-> sched.led \/ currentTime[h.s] > nextStartTimeRef]
           /\ decoding' = [j \in 1 .. Len(decoding) - 1 |->
                             IF j < i THEN decoding[j] ELSE decoding[j + 1]]
           /\ op' = Op("scheduled", h.s, NoMsg)
    /\ raised' = "none"
    /\ alerted' = FALSE
    /\ UNCHANGED <<uiVars, isLive, liveSessionRef, audioContextInRef, audioContextOutRef,
                   currentTranscriptionRef, turn, sessVars, currentTime, dropped, stale,
                   since, captureVars, pureVars, sendVars>>

\* Lines 153-156: the processor hands over a frame. inputData refers to the
\* processor's buffer, and createBlob reads it when the reaction runs: at once when
\* sessionPromise is resolved, at its resolution otherwise.  The buffer is valid
\* only inside the callback; the platform may hand every callback a fresh buffer
\* or fill the same one again (reuse), and then the reactions still queued read
\* the new frame.
onaudioprocess(k, reuse) ==
    /\ task
    /\ wired[k]
    /\ inCtx[k] = "running"
    /\ stream[k] = "live"
    /\ Len(frames) < MaxFrames
    /\ frames' = Append(frames, k)
    /\ LET f == Len(frames) + 1
           e == [s |-> k, f |-> f]
           q == IF reuse
                THEN [i \in DOMAIN pending |->
                        IF pending[i].s = k THEN e ELSE pending[i]]
                ELSE pending
       IN  IF pc[k] = "stored"
           THEN /\ sent' = sendRealtimeInput(conn, sent, e)
                /\ pending' = pending
           ELSE /\ sent' = sent
                /\ pending' = Append(q, e)
    /\ raised' = "none"
    /\ alerted' = FALSE
    /\ op' = Op("onaudioprocess", k, NoMsg)
    /\ UNCHANGED <<uiVars, isLive, refVars, sessVars, audioVars, histVars, decoding,
                   pureVars, sendVars>>

\* An error handler that only marks the session idle.
onerrorIdleOnly(k) ==
    /\ task
    /\ conn[k] \in {"connecting", "open"}
    /\ conn' = [conn EXCEPT ![k] = "errored"]
    /\ isLive' = FALSE
    /\ raised' = "none"
    /\ alerted' = FALSE
    /\ dropped' = [dropped EXCEPT ![k] = TRUE]
    /\ op' = Op("onerror", k, NoMsg)
    /\ UNCHANGED <<uiVars, refVars, nSess, pc, stream, inCtx, outCtx, wired, audioVars,
                   stale, sched, since>>
    /\ UNCHANGED <<decoding, captureVars, pureVars, sendVars>>

\* onerror: (e) => stopLiveSession(). The connection reports an error and will close.
onerror(k) ==
    /\ task
    /\ conn[k] \in {"connecting", "open"}
    /\ stopLiveSession([conn EXCEPT ![k] = "errored"])
    /\ dropped' = [dropped EXCEPT ![k] = TRUE]
    /\ op' = Op("onerror", k, NoMsg)
    /\ UNCHANGED <<mode, correctionResult>>

\* A close handler that tears down and then dials the same connection again.
oncloseReconnect(k) ==
    /\ task
    /\ conn[k] \in {"connecting", "open", "closing", "errored"}
    /\ stopLiveSession([conn EXCEPT ![k] = "connecting"])
    /\ dropped' = [dropped EXCEPT ![k] = TRUE]
    /\ op' = Op("onclose", k, NoMsg)
    /\ UNCHANGED <<mode, correctionResult>>

\* onclose: () => stopLiveSession(). The connection has closed.
onclose(k) ==
    /\ task
    /\ conn[k] \in {"connecting", "open", "closing", "errored"}
    /\ stopLiveSession([conn EXCEPT ![k] = "closed"])
    /\ dropped' = [dropped EXCEPT ![k] = TRUE]
    /\ op' = Op("onclose", k, NoMsg)
    /\ UNCHANGED <<mode, correctionResult>>

\* A completion handler that leaves the handle in the set.
onendedKeeps(i) ==
    /\ task
    /\ i \in DOMAIN nodes
    /\ \/ /\ nodes[i].st = "playing"
          /\ outCtx[nodes[i].s] = "running"
          /\ currentTime[nodes[i].s] >= nodes[i].start + nodes[i].dur
       \/ nodes[i].st = "stopped"
    /\ nodes' = [nodes EXCEPT ![i].st = "ended"]
    /\ activeSourcesRef' = activeSourcesRef
    /\ raised' = "none"
    /\ alerted' = FALSE
    /\ op' = Op("onended", nodes[i].s, NoMsg)
    /\ UNCHANGED <<uiVars, isLive, liveSessionRef, audioContextInRef,
                   audioContextOutRef, nextStartTimeRef, currentTranscriptionRef, turn,
                   sessVars, currentTime, histVars, decoding, captureVars, pureVars, sendVars>>

\* src.onended = () => activeSourcesRef.current.delete(src). A node ends when its
\* context has played it through, or after stop() was called on it.
onended(i) ==
    /\ task
    /\ i \in DOMAIN nodes
    /\ \/ /\ nodes[i].st = "playing"
          /\ outCtx[nodes[i].s] = "running"
          /\ currentTime[nodes[i].s] >= nodes[i].start + nodes[i].dur
       \/ nodes[i].st = "stopped"
    /\ nodes' = [nodes EXCEPT ![i].st = "ended"]
    /\ activeSourcesRef' = activeSourcesRef \ {i}
    /\ raised' = "none"
    /\ alerted' = FALSE
    /\ op' = Op("onended", nodes[i].s, NoMsg)
    /\ UNCHANGED <<uiVars, isLive, liveSessionRef, audioContextInRef,
                   audioContextOutRef, nextStartTimeRef, currentTranscriptionRef, turn,
                   sessVars, currentTime, histVars>>
    /\ UNCHANGED <<decoding, captureVars, pureVars, sendVars>>

\* The clock of a running output context advances.
tick(k) ==
    /\ outCtx[k] = "running"
    /\ currentTime[k] < MaxClock
    /\ currentTime' = [currentTime EXCEPT ![k] = @ + 1]
    /\ raised' = "none"
    /\ alerted' = FALSE
    /\ op' = Op("tick", k, NoMsg)
    /\ UNCHANGED <<uiVars, isLive, refVars, sessVars, nodes, histVars>>
    /\ UNCHANGED <<decoding, captureVars, pureVars, sendVars>>

\* The steps of the session's life cycle while the user stays in one mode: the
\* buttons, startLiveSession and the connection's open, error and close events.
Session ==
    \/ EndCall
    \/ SelectTutor
    \/ startLiveSession
    \/ \E k \in Sessions : getUserMediaResolved(k)
    \/ \E k \in Sessions : getUserMediaRejected(k)
    \/ \E k \in Sessions : connectRejected(k)
    \/ \E k \in Sessions : sessionResolved(k)
    \/ \E k \in Sessions : onopen(k)
    \/ \E k \in Sessions : onerror(k)
    \/ \E k \in Sessions : onclose(k)

Lifecycle ==
    \/ Session
    \/ \E m \in Modes : SelectMode(m)

\* The messages of one task may be several; the handlers they suspend resume
\* before the next task.  The clock is the audio thread's and advances at any time.
Playback ==
    \/ onmessageResumed
    \/ \E i \in 1 .. MaxChunks : onended(i)
    \/ \E k \in Sessions : tick(k)

Capture ==
    \E k \in Sessions, reuse \in BOOLEAN : onaudioprocess(k, reuse)

\* The transcript handling, the audio scheduling and the life cycle write disjoint
\* variables, and no guard of one reads a variable of another but conn. The claims
\* are checked on the three projections below.

\* The life cycle alone: a remote that sends no message.
SpecLife == Init /\ [][Lifecycle]_vars

\* A remote that sends transcripts and turn markers, to a user who stays in chat mode.
NextText ==
    \/ Session
    \/ \E k \in Sessions, m \in TextMessages : onmessage(k, m)

SpecText == Init /\ [][NextText]_vars

\* A remote that sends audio chunks, to a user who stays in chat mode.
NextAudio ==
    \/ Session
    \/ \E k \in Sessions, m \in AudioMessages : onmessage(k, m)
    \/ Playback

SpecAudio == Init /\ [][NextAudio]_vars

\* ----------------------------------------------------- sample conversion

\* A sample is a whole number n of units, standing for the float n / Unit; Unit
\* stands for 1.0.  One step of 16-bit PCM is SubSteps units.
Unit == PcmScale * SubSteps

Samples ==
    (-Unit .. -Unit + MaxOff) \cup (-MaxOff .. MaxOff) \cup (Unit - MaxOff .. Unit)

\* The Float32Arrays handed to createBlob: two samples each.
Inputs == {<<a, b>> : a, b \in Samples}

\* data[i] * 32768, as the quotient num / den: (n / Unit) * PcmScale = n / SubSteps.
scaled(n) == [num |-> n, den |-> Unit \div PcmScale]

\* A store into an Int16Array: the number is truncated toward zero, then taken
\* modulo 2^16 into -Int16Half .. Int16Half - 1.
toInt16(q) ==
    LET t == IF q.num >= 0 THEN q.num \div q.den ELSE -((-q.num) \div q.den)
    IN  ((t + Int16Half) % (2 * Int16Half)) - Int16Half

\* new Uint8Array(int16.buffer): two bytes for each element, low byte first.
bytesOf(a) ==
    [j \in 1 .. 2 * Len(a) |->
        LET v == a[(j + 1) \div 2]
            u == IF v < 0 THEN v + 2 * Int16Half ELSE v
        IN  IF j % 2 = 1 THEN u % 256 ELSE u \div 256]

\* new Int16Array(data.buffer): one element for each two bytes.
int16Of(b) ==
    [i \in 1 .. Len(b) \div 2 |->
        LET u == b[2 * i - 1] + 256 * b[2 * i]
        IN  IF u >= Int16Half THEN u - 2 * Int16Half ELSE u]

\* dataInt16[i] / 32768.0, in units: (v / PcmScale) * Unit.
toFloat(v) == v * (Unit \div PcmScale)

\* createBlob (lines 63-67): int16[i] = data[i] * 32768, then the bytes.
createBlob ==
    /\ data # <<>>
    /\ int16 = <<>>
    /\ int16' = [i \in DOMAIN data |-> toInt16(scaled(data[i]))]
    /\ blob' = bytesOf(int16')
    /\ op' = Op("createBlob", 0, NoMsg)
    /\ UNCHANGED <<uiVars, isLive, refVars, sessVars, audioVars, raised, alerted, histVars,
                   decoding, captureVars, data, channelData, ret,
                   sendVars>>

\* decodeAudioData (lines 52-61) with one channel, applied to the bytes createBlob made.
decodeAudioData ==
    /\ blob # <<>>
    /\ channelData = <<>>
    /\ channelData' = [i \in DOMAIN int16Of(blob) |-> toFloat(int16Of(blob)[i])]
    /\ op' = Op("decodeAudioData", 0, NoMsg)
    /\ UNCHANGED <<uiVars, isLive, refVars, sessVars, audioVars, raised, alerted, histVars,
                   decoding, captureVars, data, int16, blob, ret,
                   sendVars>>

\* ------------------------------------------------------ one-shot helpers

\* What generateContent answers: the promise rejects, or resolves to a response
\* whose text is undefined, empty, prose, or JSON.
Rejected == "<rejected>"
Undefined == "<undefined>"
ScoreJson == "{\"score\":7,\"feedback\":[\"Slow down.\",\"Open the vowels.\"]}"
Replies == {Rejected, Undefined, "", "Well done!", "null", ScoreJson}
CorrectionJson == "{\"correctedText\":\"I have a pen\",\"explanation\":\"has -> have\"}"
ErrorJson == "{\"error\":\"Error communicating with AI. Check your connection.\"}"

\* What the user typed.
Texts == {"hello", "i has a pen"}

Throw == [threw |-> TRUE, value |-> [kind |-> "error"]]
Return(v) == [threw |-> FALSE, value |-> v]
String(t) == [kind |-> "string", text |-> t]

\* try { body } catch { return fallback }
tryCatch(r, fallback) == IF r.threw THEN Return(fallback) ELSE r

\* JSON.parse on the texts above; anything that is not JSON is a SyntaxError.
JSONparse(t) ==
    CASE t = ScoreJson -> Return([kind |-> "object", score |-> 7,
                                  feedback |-> <<"Slow down.", "Open the vowels.">>])
      [] t = CorrectionJson -> Return([kind |-> "object",
                                       correctedText |-> "I have a pen",
                                       explanation |-> "has -> have"])
      [] t = ErrorJson -> Return([kind |-> "object",
                                  error |-> "Error communicating with AI. Check your connection."])
      [] t = "null" -> Return([kind |-> "null"])
      [] OTHER -> Throw

\* getPronunciationScore with no catch clause.
getPronunciationScoreNoCatch(text, reply) ==
    IF reply = Rejected THEN Throw ELSE JSONparse(reply)

\* getPronunciationScore (geminiService, lines 51-72).
getPronunciationScore(text, reply) ==
    tryCatch(IF reply = Rejected THEN Throw ELSE JSONparse(reply),
             [kind |-> "object", score |-> 0,
              feedback |-> <<"Unable to analyze at this moment.">>])

\* generateTutorResponse with no catch clause.
generateTutorResponseNoCatch(m, text, reply) ==
    IF reply = Rejected THEN Throw
    ELSE IF m = "correct"
         THEN Return(IF reply = Undefined THEN [kind |-> "undefined"] ELSE String(reply))
         ELSE Return(IF reply \in {Undefined, ""}
                     THEN String("I'm sorry, I couldn't process that. Please try again.")
                     ELSE String(reply))

\* generateTutorResponse (geminiService, lines 7-49): response.text in correct mode,
\* response.text || the apology in the others, the stringified error object when
\* the request fails.
generateTutorResponse(m, text, reply) ==
    tryCatch(IF reply = Rejected THEN Throw
             ELSE IF m = "correct"
                  THEN Return(IF reply = Undefined THEN [kind |-> "undefined"]
                              ELSE String(reply))
                  ELSE Return(IF reply \in {Undefined, ""}
                              THEN String("I'm sorry, I couldn't process that. Please try again.")
                              ELSE String(reply)),
             String("{\"error\":\"Error communicating with AI. Check your connection.\"}"))

\* A call of generateTutorResponse settles.
TutorCall(m, text, reply) ==
    /\ ret' = [fn |-> "generateTutorResponse", mode |-> m, text |-> text,
               reply |-> reply,
               threw |-> generateTutorResponse(m, text, reply).threw,
               value |-> generateTutorResponse(m, text, reply).value]
    /\ op' = Op("generateTutorResponse", 0, NoMsg)
    /\ UNCHANGED <<uiVars, isLive, refVars, sessVars, audioVars, raised, alerted, histVars,
                   decoding, captureVars, data, int16, blob, channelData,
                   sendVars>>

\* A call of getPronunciationScore settles.
ScoreCall(text, reply) ==
    /\ ret' = [fn |-> "getPronunciationScore", mode |-> "pronunciation", text |-> text,
               reply |-> reply,
               threw |-> getPronunciationScore(text, reply).threw,
               value |-> getPronunciationScore(text, reply).value]
    /\ op' = Op("getPronunciationScore", 0, NoMsg)
    /\ UNCHANGED <<uiVars, isLive, refVars, sessVars, audioVars, raised, alerted, histVars,
                   decoding, captureVars, data, int16, blob, channelData,
                   sendVars>>

\* ------------------------------------------------------------ handleSend

MaxRequests == 2        \* invocations of handleSend suspended at one time
MaxLog == 2             \* message pairs in the log once a one-shot request added one

\* What generateContent answers to handleSend: the answers above, or the two
\* fields of a correction.
Answers == Replies \cup {CorrectionJson}

\* What the text field can hold: nothing, white space, or a sentence.
Typed == {"", " ", "i has a pen"}

\* String.prototype.trim on the values above.
trim(t) == IF t = " " THEN "" ELSE t

\* JSON.parse(res) of line 201: undefined is converted to the string "undefined",
\* which is not JSON.
parseText(v) == IF v.kind # "string" THEN Throw ELSE JSONparse(v.text)

\* { original: input, ...parsed }: the properties of parsed, none for null, over original.
spread(original, parsed) ==
    IF parsed.kind = "object" THEN parsed @@ [original |-> original]
    ELSE [kind |-> "object", original |-> original]

\* res.score and res.feedback.map(...) of line 206 raise a TypeError on null and on
\* an object that has no feedback.
scoreRaises(res) == res.kind # "object" \/ "feedback" \notin DOMAIN res

\* feedback.map(f => `<bullet> ${f}`).join('\n'); the bullet is written "*" here.
RECURSIVE bullets(_)
bullets(f) ==
    IF f = <<>> THEN ""
    ELSE "* " \o Head(f) \o (IF Len(f) > 1 THEN "\n" \o bullets(Tail(f)) ELSE "")

\* The text of line 206.
scoreText(res) ==
    "Score: " \o ToString(res.score) \o "/10\n\nFeedback:\n" \o bullets(res.feedback)

\* An append that leaves the user message out.
logPairModelOnly(user, model) == <<[role |-> "model", text |-> <<model>>]>>

\* The two messages of lines 208 and 211.
logPair(user, model) ==
    <<[role |-> "user", text |-> <<user>>], [role |-> "model", text |-> <<model>>]>>

\* A guard that looks at the text field only.
returnsIfBlank(inp, ld, live) == trim(inp) = ""

\* Line 192: if (!input.trim() || loading || isLive) return;
returns(inp, ld, live) == trim(inp) = "" \/ ld \/ live

\* onChange of the textarea (line 389), which is never disabled, and of the input
\* (line 483), which is disabled while live or loading.
setInput(t) ==
    /\ task
    /\ mode = "correct" \/ ~(isLive \/ loading)
    /\ t # input
    /\ input' = t
    /\ raised' = "none"
    /\ alerted' = FALSE
    /\ op' = Op("setInput", 0, NoMsg)
    /\ UNCHANGED <<uiVars, isLive, refVars, sessVars, audioVars, histVars, decoding,
                   captureVars, pureVars, correctionResult, requests>>

\* handleSend up to its await (lines 191-199, 205, 210): the send button, the
\* analyze button, the Enter key.
handleSend ==
    /\ task
    /\ raised' = "none"
    /\ alerted' = FALSE
    /\ IF returns(input, loading, isLive)
       THEN /\ op' = Op("handleSendReturned", 0, NoMsg)
            /\ UNCHANGED <<loading, requests>>
       ELSE /\ Len(requests) < MaxRequests
            /\ loading' = TRUE
            /\ requests' = Append(requests, [mode |-> mode, input |-> input])
            /\ op' = Op("handleSend", 0, NoMsg)
    /\ UNCHANGED <<mode, messages, isLive, refVars, sessVars, audioVars, histVars,
                   decoding, captureVars, pureVars, input, correctionResult>>

\* The rest of handleSend (lines 199-220) for the invocation i, whose request the
\* service answers with reply. The invocation reads mode and input as they were when
\* it started. The statistics of setProgress (lines 216-220), which no handler reads,
\* are left out.
handleSendResumed(i, reply) ==
    /\ task
    /\ i \in DOMAIN requests
    /\ LET r == requests[i]
           tutor == generateTutorResponse(r.mode, r.input, reply)
           score == getPronunciationScore(r.input, reply)
           parsed == parseText(tutor.value)
       IN  /\ r.mode # "correct" => Len(messages) < 2 * MaxLog
           /\ requests' = SubSeq(requests, 1, i - 1) \o SubSeq(requests, i + 1, Len(requests))
           /\ CASE r.mode = "correct" ->
                     /\ correctionResult' = IF parsed.threw THEN correctionResult
                                            ELSE spread(r.input, parsed.value)
                     /\ alerted' = parsed.threw
                     /\ raised' = "none"
                     /\ loading' = FALSE
                     /\ UNCHANGED <<messages, input>>
                [] r.mode = "pronunciation" /\ scoreRaises(score.value) ->
                     /\ raised' = "TypeError"
                     /\ alerted' = FALSE
                     /\ UNCHANGED <<messages, input, loading, correctionResult>>
                [] r.mode = "pronunciation" /\ ~scoreRaises(score.value) ->
                     /\ messages' = messages \o logPair(r.input, scoreText(score.value))
                     /\ input' = ""
                     /\ loading' = FALSE
                     /\ raised' = "none"
                     /\ alerted' = FALSE
                     /\ UNCHANGED correctionResult
                [] OTHER ->
                     /\ messages' = messages \o logPair(r.input, tutor.value.text)
                     /\ input' = ""
                     /\ loading' = FALSE
                     /\ raised' = "none"
                     /\ alerted' = FALSE
                     /\ UNCHANGED correctionResult
    /\ op' = Op("handleSendResumed", 0, NoMsg)
    /\ UNCHANGED <<mode, isLive, refVars, sessVars, audioVars, histVars, decoding,
                   captureVars, pureVars>>

Send ==
    \/ \E t \in Typed : setInput(t)
    \/ handleSend
    \/ \E i \in 1 .. MaxRequests, r \in Answers : handleSendResumed(i, r)

Next ==
    \/ Lifecycle
    \/ \E k \in Sessions, m \in ServerMessages : onmessage(k, m)
    \/ Playback
    \/ Capture
    \/ Send

\* The whole program.
Spec == Init /\ [][Next]_vars

\* Turn markers, alone or with one character of the user's speech.
TurnMessages ==
    {m \in TextMessages : ~m.outT /\ m.inText # <<"b">> /\ (m.inT => m.inText # <<>>)
                          /\ (m.inT \/ m.turnComplete)}

\* A user who types and sends in every mode and never starts a session.
NextSend ==
    \/ \E m \in Modes : SelectMode(m)
    \/ Send

SpecSend == Init /\ [][NextSend]_vars

\* A user who types, sends and speaks in chat mode, and a remote that sends turn
\* markers.
NextTalk ==
    \/ Session
    \/ Send
    \/ \E k \in Sessions, m \in TurnMessages : onmessage(k, m)

SpecTalk == Init /\ [][NextTalk]_vars

\* The functions that keep no state: each is applied to inputs drawn from the sets
\* above.
InitPure ==
    /\ Mounted
    /\ data \in Inputs

NextPure ==
    \/ createBlob
    \/ decodeAudioData
    \/ \E m \in Modes, t \in Texts, r \in Replies : TutorCall(m, t, r)
    \/ \E t \in Texts, r \in Replies : ScoreCall(t, r)

SpecPure == InitPure /\ [][NextPure]_vars

\* A microphone that delivers frames, to a user who stays in chat mode.
NextCapture ==
    \/ Session
    \/ Capture

SpecCapture == Init /\ [][NextCapture]_vars

\* ------------------------------------------------------------ the claims

StopOps == {"endCall", "selectTutor", "selectMode"}
TeardownOps == StopOps \cup {"onerror", "onclose"}

\* C1. stop() is safe from any state: whatever the state it is called in (never
\* started, connecting, live, just stopped), it raises no error and leaves the
\* session idle.
C1_StopIsSafe ==
    op.name \in StopOps => (raised = "none" /\ ~isLive)

\* C2. After a session that went live and stored its handle is torn down (stop,
\* remote error, remote close), its connection is closed or closing, no playback
\* handle is active, both its audio contexts are closed and its microphone stream
\* is no longer held.
C2_ResourcesReleased ==
    (/\ op.name \in TeardownOps
     /\ audioContextOutRef # 0
     /\ pc[audioContextOutRef] = "stored")
    => LET k == audioContextOutRef
       IN  /\ conn[k] \notin {"connecting", "open"}
           /\ activeSourcesRef = {}
           /\ inCtx[k] = "closed"
           /\ outCtx[k] = "closed"
           /\ stream[k] # "live"

\* What stop() does to the session state, c0 being the connections it finds: the
\* stored connection is asked to close and forgotten, every active handle is stopped
\* and the set emptied, the state is idle, both stored contexts are closed, and a
\* context that was closed already answers with a rejection; all else is left alone.
TeardownOf(c0) ==
    /\ isLive' = FALSE
    /\ liveSessionRef' = 0
    /\ activeSourcesRef' = {}
    /\ conn' = [k \in Sessions |->
                  IF k = liveSessionRef /\ c0[k] \in {"connecting", "open"}
                  THEN "closing" ELSE c0[k]]
    /\ Len(nodes') = Len(nodes)
    /\ \A i \in DOMAIN nodes :
          nodes'[i] = IF i \in activeSourcesRef
                      THEN [nodes[i] EXCEPT !.st = "stopped"] ELSE nodes[i]
    /\ inCtx' = [k \in Sessions |-> IF k = audioContextInRef THEN "closed" ELSE inCtx[k]]
    /\ outCtx' = [k \in Sessions |-> IF k = audioContextOutRef THEN "closed" ELSE outCtx[k]]
    /\ raised' = IF \/ (audioContextInRef # 0 /\ inCtx[audioContextInRef] = "closed")
                    \/ (audioContextOutRef # 0 /\ outCtx[audioContextOutRef] = "closed")
                 THEN "InvalidStateError" ELSE "none"
    /\ UNCHANGED <<loading, messages, audioContextInRef, audioContextOutRef,
                   nextStartTimeRef, currentTranscriptionRef, turn, nSess, pc, stream,
                   wired, currentTime, decoding, captureVars, pureVars, input,
                   requests>>

\* C3. A remote error event and a remote close event do to the session state exactly
\* what stop() does in the same state: every stop step, every onerror step and
\* every onclose step is the one teardown, applied to the connections as the event
\* left them.
C3_SameTeardown ==
    [][/\ op'.name \in StopOps => TeardownOf(conn)
       /\ op'.name = "onerror" => TeardownOf([conn EXCEPT ![op'.s] = "errored"])
       /\ op'.name = "onclose" => TeardownOf([conn EXCEPT ![op'.s] = "closed"])]_vars

\* C3 witness: a remote error has torn down a live session that was playing audio.
C3_Witness ==
    /\ op.name = "onerror"
    /\ wired[op.s]
    /\ outCtx[op.s] = "closed"
    /\ \E i \in DOMAIN nodes : nodes[i].st = "stopped"

\* C4. A dropped session is never reconnected by the program: a session and its
\* connection come into being only in a start() the user invoked, the connection of
\* a session that saw a remote error or close is never connecting or open again, and
\* the state turns live only in the open callback of a session that was not dropped.
C4_NoAutoReconnect ==
    [][/\ nSess' # nSess => op'.name = "start"
       /\ \A k \in Sessions :
             /\ (conn[k] = "none" /\ conn'[k] # "none")
                   => (op'.name = "getUserMediaResolved" /\ op'.s = k)
             /\ dropped[k] => conn'[k] \notin {"connecting", "open"}
       /\ (~isLive /\ isLive') => (op'.name = "onopen" /\ ~dropped[op'.s])]_vars

\* C4 witness: a live session was closed by the remote, and the program is idle.
C4_Witness ==
    /\ op.name = "onclose"
    /\ dropped[op.s]
    /\ wired[op.s]
    /\ pc[op.s] = "stored"
    /\ conn[op.s] = "closed"
    /\ ~isLive

\* C5. When microphone permission is denied the user is told, and nothing of the
\* session exists: no connection, no audio context, no stream; the state is not
\* live and the loading flag is cleared, so the microphone button can start again.
C5_DeniedLeavesNothing ==
    op.name = "getUserMediaRejected"
    => LET k == op.s
       IN  /\ alerted
           /\ raised = "none"
           /\ conn[k] = "none"
           /\ inCtx[k] = "none"
           /\ outCtx[k] = "none"
           /\ stream[k] = "none"
           /\ liveSessionRef # k
           /\ ~isLive
           /\ ~loading

\* C5 witness: permission has just been denied.
C5_Witness ==
    /\ op.name = "getUserMediaRejected"
    /\ pc[op.s] = "caught"
    /\ alerted

\* C6. Text that a teardown left in the turn buffers is never appended to the log
\* by a session started after that teardown.
C6_StaleTextDiscarded ==
    ~(op.name = "onmessage" /\ op.late)

\* C7. A turn-complete marker processed with a non-empty turn buffer appends exactly
\* two messages, the user's with the input buffer and then the model's with the
\* output buffer, and leaves both buffers empty.
C7_TurnBoundaryFlush ==
    [][(op'.name = "onmessage" /\ op'.tc /\ turn' # EmptyBuffers)
       => /\ messages' = messages \o <<[role |-> "user", text |-> turn'.input],
                                        [role |-> "model", text |-> turn'.output]>>
          /\ currentTranscriptionRef' = EmptyBuffers]_vars

\* C7 witness: a turn with text on both sides has been flushed.
C7_Witness ==
    /\ op.name = "onmessage"
    /\ op.tc
    /\ turn.input # <<>>
    /\ turn.output # <<>>
    /\ Len(messages) = 2

\* C8. A turn-complete marker processed with both turn buffers empty leaves the log
\* as it was.
C8_EmptyTurnSuppression ==
    [][(op'.name = "onmessage" /\ op'.tc /\ turn' = EmptyBuffers)
       => messages' = messages]_vars

\* C8 witness: an empty turn has been completed.
C8_Witness ==
    /\ op.name = "onmessage"
    /\ op.tc
    /\ turn = EmptyBuffers
    /\ currentTranscriptionRef = EmptyBuffers

\* C9. Between two consecutive turn-complete markers of one session the buffers are
\* the deltas received since the first marker, in arrival order; the deltas that
\* arrive with the second marker are part of the turn it completes.
C9_BuffersAreDeltasInOrder ==
    since.clean
    => IF since.done
       THEN turn = [input |-> since.input, output |-> since.output]
       ELSE currentTranscriptionRef = [input |-> since.input, output |-> since.output]

\* C9 witness: a turn made of two different input deltas has been completed.
C9_Witness ==
    /\ op.name = "onmessage"
    /\ since.clean
    /\ since.done
    /\ since.input = <<"a", "b">>

\* C10. Each chunk is started at max(cursor, clock) and the cursor becomes that
\* start plus the chunk's duration; so while the clock has not led the cursor since
\* the cursor was reset, the cursor is the sum of the durations scheduled since.
C10_SchedulingRule ==
    /\ [][(op'.name = "scheduled" /\ Len(nodes') = Len(nodes) + 1)
          => LET n == nodes'[Len(nodes')]
             IN  /\ n.start = Max(nextStartTimeRef, currentTime[op'.s])
                 /\ nextStartTimeRef' = n.start + n.dur]_vars
    /\ [](~sched.led => nextStartTimeRef = sched.sum)

\* C10 witness: two chunks of different durations were scheduled back to back.
C10_Witness ==
    /\ op.name = "scheduled"
    /\ sched.n = 2
    /\ ~sched.led
    /\ sched.sum = 3
    /\ nextStartTimeRef = 3

\* C11. The cursor never goes back, but for the reset to 0 with which a start gives
\* it to a new output context; and of two chunks scheduled on an output context
\* that is playing, the later one starts no earlier than the earlier one ends.
C11_NonOverlap ==
    /\ [][nextStartTimeRef' >= nextStartTimeRef
          \/ op'.name = "getUserMediaResolved"]_vars
    /\ [](\A i, j \in DOMAIN nodes :
            (i < j /\ nodes[i].s = nodes[j].s /\ outCtx[nodes[i].s] = "running")
            => nodes[j].start >= nodes[i].start + nodes[i].dur)

\* C11 witness: the second chunk arrived late and starts after a gap.
C11_Witness ==
    /\ op.name = "scheduled"
    /\ Len(nodes) = 2
    /\ nodes[1].s = nodes[2].s
    /\ outCtx[nodes[1].s] = "running"
    /\ nodes[2].start > nodes[1].start + nodes[1].dur

\* C12. While live, the active set is exactly the handles scheduled whose completion
\* has not come (played through with its event fired, or stopped); scheduling adds
\* the new handle and nothing else, a completion event removes its handle and
\* nothing else.
C12_ActiveSetTracking ==
    /\ [][/\ Len(nodes') > Len(nodes)
             => activeSourcesRef' = activeSourcesRef \cup {Len(nodes')}
          /\ op'.name = "onended"
             => activeSourcesRef' =
                  activeSourcesRef \ {i \in DOMAIN nodes :
                                        nodes[i].st # "ended" /\ nodes'[i].st = "ended"}]_vars
    /\ [](isLive => activeSourcesRef = {i \in DOMAIN nodes : nodes[i].st = "playing"})

\* C12 witness: while live, one of two scheduled handles has completed and left the set.
C12_Witness ==
    /\ op.name = "onended"
    /\ isLive
    /\ Len(nodes) = 2
    /\ nodes[1].st = "ended"
    /\ activeSourcesRef = {2}

\* C14. The chunks are scheduled in the order their messages arrived: the i-th node
\* created is the one of the i-th audio message.
C14_ArrivalOrder ==
    \A i \in DOMAIN nodes : nodes[i].msg = i

\* C14 witness: two handlers were suspended at once, and both have scheduled.
C14_Witness ==
    /\ op.name = "scheduled"
    /\ Len(nodes) = 2
    /\ nodes[1].fl = 2

\* The frames session k captured, and the frames that went out on its connection.
CapturedBy(k) ==
    LET mine(i) == frames[i] = k
    IN  SelectSeq([i \in 1 .. Len(frames) |-> i], mine)

SentBy(k) ==
    LET mine(e) == e.s = k
        q == SelectSeq(sent, mine)
    IN  [j \in 1 .. Len(q) |-> q[j].f]

\* C13. What went out on a session's connection is the frames it captured, in
\* capture order, each once and none left out: the j-th frame sent is the j-th
\* frame captured.
C13_OutboundOrder ==
    \A k \in Sessions :
       /\ Len(SentBy(k)) <= Len(CapturedBy(k))
       /\ SentBy(k) = SubSeq(CapturedBy(k), 1, Len(SentBy(k)))

\* C15. No frame goes out for a session once a stop() has closed its input context.
C15_NoFrameAfterStop ==
    [][\A k \in Sessions :
          Len(SentBy(k))' > Len(SentBy(k)) => inCtx[k] # "closed"]_vars

\* round(s * 32768), halves upward as Math.round does, clamped to 16 bits.
RoundClamp(n) ==
    LET r == (2 * n + SubSteps) \div (2 * SubSteps)
    IN  IF r > Int16Half - 1 THEN Int16Half - 1
        ELSE IF r < -Int16Half THEN -Int16Half ELSE r

\* C16. Every sample s in [-1, 1] is encoded as round(s * 32768) clamped to
\* -32768 .. 32767; 1.0 is encoded as 32767.
C16_RoundAndClamp ==
    int16 # <<>> => \A i \in DOMAIN data : int16[i] = RoundClamp(data[i])

\* C17. The encoding is monotonic: s1 < s2 implies encoded(s1) <= encoded(s2).
C17_Monotonic ==
    (int16 # <<>> /\ data[1] < data[2]) => int16[1] <= int16[2]

\* C18. Encoding a sample and decoding it back yields a value within 1/32768 of it.
C18_RoundTrip ==
    channelData # <<>>
    => \A i \in DOMAIN data :
          /\ channelData[i] - data[i] <= SubSteps
          /\ data[i] - channelData[i] <= SubSteps

\* C19. getPronunciationScore never throws, and when the request fails or the
\* response text is not JSON it returns { score: 0, feedback: [placeholder] }.
C19_ScoreFailsClosed ==
    ret.fn = "getPronunciationScore"
    => /\ ~ret.threw
       /\ ret.reply \notin {ScoreJson, "null"}
          => ret.value = [kind |-> "object", score |-> 0,
                          feedback |-> <<"Unable to analyze at this moment.">>]

\* C19 witness: the response text was prose, and the placeholder came back.
C19_Witness ==
    /\ ret.fn = "getPronunciationScore"
    /\ ret.reply = "Well done!"
    /\ ret.value.kind = "object"
    /\ ret.value.score = 0

\* C20. generateTutorResponse never throws, and when the request fails it returns
\* the same value whatever the text and the mode.
C20_TutorFailsClosed ==
    ret.fn = "generateTutorResponse"
    => /\ ~ret.threw
       /\ ret.reply = Rejected
          => ret.value = String("{\"error\":\"Error communicating with AI. Check your connection.\"}")

\* C20 witness: a request in correct mode failed, and the fallback came back.
C20_Witness ==
    /\ ret.fn = "generateTutorResponse"
    /\ ret.reply = Rejected
    /\ ret.mode = "correct"
    /\ ret.value.kind = "string"

Apology == "I'm sorry, I couldn't process that. Please try again."

\* C21. In a conversational mode, when the tutoring request fails or yields no
\* usable text, the model message handleSend shows is the fixed apology string.
C21_ApologyOnFailure ==
    [][\A i \in 1 .. MaxRequests, r \in {Rejected, Undefined, ""} :
          /\ i \in DOMAIN requests
          /\ requests[i].mode \notin {"correct", "pronunciation"}
          /\ handleSendResumed(i, r)
          => messages' = messages \o <<[role |-> "user", text |-> <<requests[i].input>>],
                                       [role |-> "model", text |-> <<Apology>>]>>]_vars

\* C22. Whatever the one-shot helper answers (a result, a failed request, text that
\* does not parse, text that parses to the wrong shape), handleSend runs to its end
\* without an uncaught exception and leaves the loading flag cleared.
C22_SendCompletes ==
    op.name = "handleSendResumed" => raised = "none" /\ ~loading

\* C23. In correction mode handleSend stores a correction result only when the
\* answer is the object of the two fields correctedText and explanation; a failed
\* request stores nothing and is reported to the user with the alert.
C23_CorrectionOnlyTwoFields ==
    [][\A i \in 1 .. MaxRequests, r \in Answers :
          /\ i \in DOMAIN requests
          /\ requests[i].mode = "correct"
          /\ handleSendResumed(i, r)
          => /\ \/ correctionResult' = correctionResult
                \/ correctionResult' = [kind |-> "object", original |-> requests[i].input,
                                        correctedText |-> "I have a pen",
                                        explanation |-> "has -> have"]
             /\ r = Rejected => correctionResult' = correctionResult /\ alerted']_vars

\* C24. The log is append-only and grows only when a realtime handler processes a
\* turn-complete marker or when a one-shot request completes; every append adds one
\* user message followed by one model message, so the log always has even length
\* and its roles alternate, user first.
C24_LogPairs ==
    /\ [][messages' # messages
          => /\ Len(messages') = Len(messages) + 2
             /\ SubSeq(messages', 1, Len(messages)) = messages
             /\ messages'[Len(messages) + 1].role = "user"
             /\ messages'[Len(messages) + 2].role = "model"
             /\ \/ op'.name = "handleSendResumed"
                \/ op'.name = "onmessage" /\ op'.tc]_vars
    /\ [](/\ Len(messages) % 2 = 0
          /\ \A i \in DOMAIN messages :
                messages[i].role = IF i % 2 = 1 THEN "user" ELSE "model")

\* C24 witness: a turn of a realtime session and then a one-shot request have each
\* appended their pair.
C24_Witness ==
    /\ Len(messages) = 4
    /\ messages[1] = [role |-> "user", text |-> <<"a">>]
    /\ messages[3] = [role |-> "user", text |-> <<"i has a pen">>]
    /\ messages[4].role = "model"
    /\ op.name = "handleSendResumed"

\* C28. handleSend issues no request and changes no state when the input is blank,
\* when loading, or when a session is live; otherwise it issues one request and sets
\* loading. Hence at most one one-shot request is in flight at a time, and none
\* while a session is live.
C28_SendGuard ==
    /\ [][op'.name \in {"handleSend", "handleSendReturned"} /\ op' # op
          => IF trim(input) = "" \/ loading \/ isLive
             THEN /\ op'.name = "handleSendReturned"
                  /\ UNCHANGED <<uiVars, isLive, refVars, sessVars, audioVars, decoding,
                                 captureVars, sendVars>>
             ELSE /\ op'.name = "handleSend"
                  /\ requests' = Append(requests, [mode |-> mode, input |-> input])
                  /\ loading']_vars
    /\ [](Len(requests) <= 1 /\ (requests # <<>> => ~isLive /\ loading))

\* C28 witness: handleSend was called with text in the field while a session was
\* live, and returned.
C28_Witness ==
    /\ op.name = "handleSendReturned"
    /\ isLive
    /\ trim(input) # ""
    /\ requests = <<>>

\* C25. A stop() that runs while a session is still connecting cancels that session:
\* the state turns live only in a session whose audio contexts no teardown has closed.
C25_StopCancelsConnecting ==
    [][~isLive /\ isLive'
          => inCtx[op'.s] = "running" /\ outCtx[op'.s] = "running"]_vars

\* C26. After a teardown the active set is empty and stays empty until the next
\* start(): a playback handle is created and registered only by a session whose
\* output context no teardown has closed, and the set holds such handles only.
C26_NoHandleAfterTeardown ==
    /\ [][Len(nodes') > Len(nodes)
          => outCtx[nodes'[Len(nodes')].s] = "running"]_vars
    /\ [](/\ op.name \in TeardownOps => activeSourcesRef = {}
          /\ \A i \in activeSourcesRef : outCtx[nodes[i].s] = "running")

\* C27. At most one realtime connection is connecting or open at any time, and a
\* new connection is made only when every connection made before it has been asked
\* to close, has closed or has failed.
C27_OneConnection ==
    /\ [][\A k \in Sessions :
            conn[k] = "none" /\ conn'[k] # "none"
            => \A j \in Sessions \ {k} : conn[j] \notin {"connecting", "open"}]_vars
    /\ [](Cardinality({k \in Sessions : conn[k] \in {"connecting", "open"}}) <= 1)

====
